---- MODULE Spec2Model ----
(***************************************************************************)
(* A model of mspaths_mri_to_bids.py: the bundle extraction                *)
(* (extract_bundle, extract_mri_files, extract_single_zipbundle) and the   *)
(* session cleanup (cleanup_sessions).                                     *)
(*                                                                         *)
(* cleanup_sessions is read with its missing imports (os, pandas,          *)
(* datetime), the colon of the "else" of line 185 and the unbound name     *)
(* subject_id (the subject directory's name without "sub-") restored: as   *)
(* written the file does not compile, and no statement about its           *)
(* behaviour could be checked.                                             *)
(*                                                                         *)
(* Names.  A session directory is called ses-<token>.  A token is a string *)
(* of decimal digits, modelled as [w |-> its length, v |-> its value]:     *)
(* "001" is [w |-> 3, v |-> 1], "20210105" is [w |-> 8, v |-> 20210105].   *)
(* A date string "2021-01-05" (strftime "%Y-%m-%d") is <<2021, 1, 5>>.     *)
(*                                                                         *)
(* Specifications.  Spec: the three commands in any order from an empty    *)
(* target.  SpecPlace: single bundles over more converter outcomes.        *)
(* SpecReconcile (SpecReconcileFair: with weak fairness): cleanup passes   *)
(* from any set of session directories and any Registry of one subject.    *)
(* SpecOddNames: the same with directory names of other lengths.           *)
(* SpecUnreadable: cleanup passes over two subjects, with sessions.tsv     *)
(* files that are not tables.  SpecInterrupt: cleanup passes that may be   *)
(* ended from outside.                                                     *)
(***************************************************************************)
EXTENDS Integers, Sequences, FiniteSets, TLC

\* ------------------------------------------------------------------ bounds

\* Highest ordinal of a session directory or Registry row present before
\* the first cleanup pass (SpecReconcile).
MaxOrd == 3

\* Number of commands (batch, single bundle, cleanup) started in one behaviour.
MaxCommands == 4

\* ------------------------------------------------------------- the inputs

Subjects == {"S1", "S2"}

\* The date-stamps of the visits, as the vendor names the visit directories.
Stamp1 == [w |-> 8, v |-> 20210105]
Stamp2 == [w |-> 8, v |-> 20210201]
Stamp3 == [w |-> 8, v |-> 20210310]
Stamps == {Stamp1, Stamp2, Stamp3}

\* ---------------------------------------------------- strings of digits

Pow10(n) == IF n = 0 THEN 1 ELSE IF n = 1 THEN 10 ELSE IF n = 2 THEN 100
            ELSE IF n = 3 THEN 1000 ELSE IF n = 4 THEN 10000
            ELSE IF n = 5 THEN 100000 ELSE IF n = 6 THEN 1000000
            ELSE 10000000

\* The i-th character (1-based) of the token, a digit.
DigitAt(t, i) == (t.v \div Pow10(t.w - i)) % 10

\* Python's str < str: the first differing character decides, and a proper
\* prefix is smaller.
StrLess(a, b) ==
    \/ \E i \in 1..a.w :
          /\ i <= b.w
          /\ \A j \in 1..(i - 1) : DigitAt(a, j) = DigitAt(b, j)
          /\ DigitAt(a, i) < DigitAt(b, i)
    \/ /\ a.w < b.w
       /\ \A j \in 1..a.w : DigitAt(a, j) = DigitAt(b, j)

\* sessions.sort(reverse=True): the order turned round.
RECURSIVE SortedNamesDescending(_)
SortedNamesDescending(S) ==
    IF S = {} THEN <<>>
    ELSE LET m == CHOOSE x \in S : \A y \in S \ {x} : StrLess(y, x)
         IN  <<m>> \o SortedNamesDescending(S \ {m})

\* sessions.sort(reverse=False), on the tokens of the ses-* directories.
RECURSIVE SortedNames(_)
SortedNames(S) ==
    IF S = {} THEN <<>>
    ELSE LET m == CHOOSE x \in S : \A y \in S \ {x} : StrLess(x, y)
         IN  <<m>> \o SortedNames(S \ {m})

\* f'ses-{k:03}': at least three digits, zero padded.
SesId(k) == [w |-> IF k < 1000 THEN 3 ELSE 4, v |-> k]

ValueError == <<"ValueError">>

DaysIn(y, m) ==
    IF m = 2 THEN (IF (y % 4 = 0 /\ y % 100 # 0) \/ y % 400 = 0 THEN 29 ELSE 28)
    ELSE IF m \in {4, 6, 9, 11} THEN 30 ELSE 31

\* datetime.strptime(token, "%Y%m%d").strftime("%Y-%m-%d").  %Y takes four
\* digits; %m takes two digits 01..12 if it can, else one digit 1..9; %d
\* takes two digits 01..31 if it can, else one digit 1..9; the first match
\* in that order must use up the token and be a day of the calendar, or
\* ValueError is raised.  So a token of eight digits is cut at fixed places,
\* a token of three digits (an identifier) has no month, and tokens of six
\* and of seven digits can be dates: "2021115" is 2021-11-05, "2021011" is
\* 2021-01-01 and "202111" is 2021-01-01.
Strptime(t) ==
    LET y == t.v \div Pow10(t.w - 4)
        a == IF t.w >= 5 THEN DigitAt(t, 5) ELSE 0
        b == IF t.w >= 6 THEN DigitAt(t, 6) ELSE 0
        c == IF t.w >= 7 THEN DigitAt(t, 7) ELSE 0
        d == IF t.w >= 8 THEN DigitAt(t, 8) ELSE 0
        Date(m, dd) == IF y >= 1 /\ dd <= DaysIn(y, m) THEN <<y, m, dd>> ELSE ValueError
    IN  IF t.w = 8
        THEN (IF 10 * a + b \in 1..12 /\ 10 * c + d \in 1..31
              THEN Date(10 * a + b, 10 * c + d) ELSE ValueError)
        ELSE IF t.w = 7
        THEN (IF 10 * a + b \in 1..12 /\ c \in 1..9 THEN Date(10 * a + b, c)
              ELSE IF a \in 1..9 /\ 10 * b + c \in 1..31 THEN Date(a, 10 * b + c)
              ELSE ValueError)
        ELSE IF t.w = 6
        THEN (IF a \in 1..9 /\ b \in 1..9 THEN Date(a, b) ELSE ValueError)
        ELSE ValueError

\* ------------------------------------------------------------------ state

VARIABLES
    target,     \* target[sub][token]: the files of sub-<sub>/ses-<token>/anat
    registry,   \* registry[sub]: the rows of sub-<sub>_sessions.tsv
    pc,         \* "idle", "cleanup", "sessions", "batch", "visits"
    subjects,   \* cleanup_sessions: the subjects the loop has yet to take
    subj,       \* cleanup_sessions: the subject of the current iteration
    sessions,   \* cleanup_sessions: the sorted tokens of the subject
    s,          \* cleanup_sessions: the loop index (0-based, as in the code)
    df,         \* cleanup_sessions: sessions_df, the in-memory Registry
    passlog,    \* history: what the current pass did to each raw visit
    corrupt,    \* the files that cannot be read: archives of the source
                \* (by name) and sessions.tsv files (by subject)
    ledger,     \* the lines of processed_zipfiles.csv
    scratch,    \* what lies in tmpdir
    todo,       \* extract_mri_files: the archives the loop has yet to take
    filelist,   \* extract_bundle: the entries the loop has yet to take
    bundles,    \* history: the calls of extract_bundle of the current command
    stat,       \* history: what the current command has done so far
    done        \* history: the commands completed, each with its stat

cleanupVars == <<subjects, subj, sessions, s, df, passlog>>

extractVars == <<corrupt, ledger, scratch, todo, filelist, bundles>>

vars == <<target, registry, pc, cleanupVars, extractVars, stat, done>>

NoSubject == "none"

\* A file of an anat directory, sub-<sub>_ses-<tok>_<mod>.<ext>, and the
\* converter output it was copied from.
File(tok, mod, ext, src) == [tok |-> tok, mod |-> mod, ext |-> ext, src |-> src]

\* ------------------------------------------------------ cleanup_sessions

SessionIds(d) == {d[i].session_id : i \in 1..Len(d)}

\* sessions_df.query('session_id == @ses_id').acq_time.to_list()
AcqTimes(d, id) == {d[i].acq_time : i \in {j \in 1..Len(d) : d[j].session_id = id}}

\* The collision search that keeps the colliding identifier.
NoSearch(d, nr) == SesId(nr + 1)

\* A search that goes on past the rows of the Registry.
SearchPastRows(d, nr) == SesId(nr + Len(d) + 2)

\* while ses_id in sessions_df.session_id.to_list(): ses_nr = ses_nr + 1 ...
\* called with ses_nr = s; the result is the identifier the loop ends with.
RECURSIVE FindNewName(_, _)
FindNewName(d, nr) ==
    IF SesId(nr + 1) \in SessionIds(d)
    THEN FindNewName(d, nr + 1)
    ELSE SesId(nr + 1)

\* glob(join(abspath(bidsroot), 'sub-*')): a subject directory exists once
\* a session directory or a sessions.tsv was put into it.
SubjectDirs ==
    {x \in Subjects : DOMAIN target[x] # {} \/ registry[x] # <<>> \/ x \in corrupt}

HasRaw(x) == \E t \in DOMAIN target[x] : Strptime(t) # ValueError

\* History of one command: what it did, how it ended (error: the
\* exception or signal that ended it, pending: the subjects cleanup_sessions
\* had not finished, sub and saving: the Registry that was being written),
\* and the target and the Registries before and after.
ZeroStat(cmd) ==
    [cmd |-> cmd, renames |-> 0, fileRenames |-> 0, appends |-> 0, conv |-> 0,
     placed |-> 0, crashed |-> FALSE, hadRaw |-> \E x \in Subjects : HasRaw(x),
     error |-> "none", pending |-> {}, sub |-> NoSubject, saving |-> <<>>,
     target0 |-> target, registry0 |-> registry,
     target1 |-> target, registry1 |-> registry]

\* main(), command "cleanup": cleanup_sessions(args.target) starts.
StartCleanup ==
    /\ pc = "idle"
    /\ Len(done) < MaxCommands
    /\ pc' = "cleanup"
    /\ subjects' = SubjectDirs
    /\ stat' = ZeroStat("cleanup")
    /\ passlog' = <<>>
    /\ UNCHANGED <<target, registry, subj, sessions, s, df, done, extractVars>>

\* pd.read_csv(sessions_tsv, ...) (169) on a file that is not a table
\* raises (EmptyDataError, ParserError, UnicodeDecodeError).
ReadRaises(x) == x \in corrupt

\* for subject in subjects: the session tokens are listed and sorted, the
\* Registry is read.
SubjectBegin ==
    /\ pc = "cleanup"
    /\ \E x \in subjects :
          /\ subj' = x
          /\ sessions' = SortedNames(DOMAIN target[x])
          /\ IF ReadRaises(x)
             THEN \* nothing catches the exception: cleanup_sessions is left
                  /\ pc' = "idle"
                  /\ done' = Append(done, [stat EXCEPT !.crashed = TRUE,
                                                       !.error = "ParserError",
                                                       !.pending = subjects,
                                                       !.target1 = target,
                                                       !.registry1 = registry])
                  /\ UNCHANGED <<df, s>>
             ELSE /\ df' = registry[x]
                  /\ s' = 0
                  /\ pc' = "sessions"
                  /\ UNCHANGED done
    /\ UNCHANGED <<target, registry, subjects, passlog, stat, extractVars>>

\* os.rename of a directory: onto a name that exists (a directory that is
\* not empty: every session directory holds anat/) it raises OSError.
RenameRaises(dirs, new) == new \in DOMAIN dirs

RenameDir(dirs, old, new) ==
    [t \in (DOMAIN dirs \ {old}) \cup {new} |-> IF t = new THEN dirs[old] ELSE dirs[t]]

\* The files glob(join(subject, ses_id, '*', f'sub*ses-{old}*')) finds.
FilesToRename(dirs, id, old) ==
    IF id \in DOMAIN dirs THEN {f \in dirs[id] : f.tok = old} ELSE {}

\* rename(f, f.replace(f'ses-{old}', ses_id)) for each of them.
RenameFiles(dirs, id, old) ==
    IF id \in DOMAIN dirs
    THEN [dirs EXCEPT ![id] =
            {IF f.tok = old THEN [f EXCEPT !.tok = id] ELSE f : f \in dirs[id]}]
    ELSE dirs

\* join(subject, f'ses-{s+1:03}'): the name the directory is renamed to.
RenameTarget(i, id) == SesId(i + 1)

\* One iteration of "for s in range(len(sessions))" (lines 171-199).
SessionStep ==
    /\ pc = "sessions"
    /\ s < Len(sessions)
    /\ LET old == sessions[s + 1]
           ses_date == Strptime(old)
           cand == SesId(s + 1)
           known == cand \in SessionIds(df)
           same == known /\ ses_date \in AcqTimes(df, cand)
           ses_id == IF known THEN FindNewName(df, s) ELSE cand
           new == RenameTarget(s, ses_id)
           dirs == target[subj]
           entry == [sub |-> subj, old |-> old, date |-> ses_date, idx |-> s,
                     collided |-> known, before |-> df, ses_id |-> ses_id,
                     dir |-> new, act |-> "renamed"]
       IN  IF ses_date = ValueError
           THEN \* except ValueError: continue
                /\ s' = s + 1
                /\ UNCHANGED <<target, df, passlog, stat, pc, done>>
           ELSE IF same
           THEN \* already in the list: continue
                /\ s' = s + 1
                /\ passlog' = Append(passlog, [entry EXCEPT !.act = "same"])
                /\ UNCHANGED <<target, df, stat, pc, done>>
           ELSE /\ df' = Append(df, [session_id |-> ses_id, acq_time |-> ses_date])
                /\ IF RenameRaises(dirs, new)
                   THEN \* OSError leaves cleanup_sessions: nothing is saved
                        /\ pc' = "idle"
                        /\ passlog' = Append(passlog, [entry EXCEPT !.act = "raised"])
                        /\ done' = Append(done, [stat EXCEPT !.crashed = TRUE,
                                                             !.error = "OSError",
                                                             !.pending = subjects,
                                                             !.target1 = target,
                                                             !.registry1 = registry])
                        /\ UNCHANGED <<target, stat, s>>
                   ELSE LET moved == RenameDir(dirs, old, new)
                            n == Cardinality(FilesToRename(moved, ses_id, old))
                        IN  /\ target' = [target EXCEPT ![subj] = RenameFiles(moved, ses_id, old)]
                            /\ passlog' = Append(passlog, entry)
                            /\ stat' = [stat EXCEPT !.renames = @ + 1,
                                                    !.fileRenames = @ + n]
                            /\ s' = s + 1
                            /\ UNCHANGED <<pc, done>>
    /\ UNCHANGED <<registry, subjects, subj, sessions, extractVars>>

\* sessions_df.to_csv(sessions_tsv, ...) after the last session (200-204).
SubjectEnd ==
    /\ pc = "sessions"
    /\ s = Len(sessions)
    /\ registry' = [registry EXCEPT ![subj] = df]
    /\ subjects' = subjects \ {subj}
    /\ pc' = "cleanup"
    /\ UNCHANGED <<target, subj, sessions, s, df, passlog, stat, done, extractVars>>

\* The loop over the subjects is over: cleanup_sessions returns.
CleanupEnd ==
    /\ pc = "cleanup"
    /\ subjects = {}
    /\ pc' = "idle"
    /\ done' = Append(done, [stat EXCEPT !.target1 = target, !.registry1 = registry])
    /\ UNCHANGED <<target, registry, subjects, subj, sessions, s, df, passlog, stat, extractVars>>

\* ----------------------------------------------------------- the source

\* The archives glob(join(source, 'MRI*', 'MSPATHS*_DICOM_*.zip')) finds.
Archives == {"A1", "A2"}

\* The name of a subject directory of an archive, as the words between its
\* underscores ("MRI_S1" is <<"MRI", "S1">>), and the visit directory in it.
Entry(parent, session) == [parent |-> parent, session |-> session]

\* What glob(join(tmpdir, '*', '*')) lists once the archive is extracted.
\* A1 holds a directory without underscore between two well-formed ones;
\* A2 delivers the first visit of S1 again, with a later one.
Content(a) ==
    IF a = "A1"
    THEN <<Entry(<<"MRI", "S1">>, Stamp1), Entry(<<"BAD">>, Stamp1),
           Entry(<<"MRI", "S2">>, Stamp2)>>
    ELSE <<Entry(<<"MRI", "S1">>, Stamp1), Entry(<<"MRI", "S1">>, Stamp2)>>

\* A compressed image dcm2niix left in the visit directory: whether its name
\* matches '*FLAIR*MS-P*.nii.gz', '*T1*MS-P*.nii.gz', whether its path holds
\* "FLAIR", and whether the .json of the same stem exists.
Nifti(name, flairPat, t1Pat, flairIn, json) ==
    [name |-> name, flairPat |-> flairPat, t1Pat |-> t1Pat, flairIn |-> flairIn,
     json |-> json]

T1Image(json) == Nifti("T1_MS-P", FALSE, TRUE, FALSE, json)

FlairImage(json) == Nifti("FLAIR_MS-P", TRUE, FALSE, TRUE, json)

OtherImage == Nifti("DWI", FALSE, FALSE, FALSE, TRUE)

\* What one call of dcm2niix may come to (81): the exit status, 0 or not (an
\* error, or killed), and the images it left in the visit directory.  With
\* status 0: nothing, a T1 and a FLAIR image with their sidecars, a T1 image
\* without sidecar, an image of no pattern.  With another status: nothing,
\* or the T1 image written before the failure.
ConverterRuns ==
    {[rc |-> 0, outs |-> o] : o \in {{}, {T1Image(TRUE), FlairImage(TRUE)},
                                     {T1Image(FALSE)}, {OtherImage}}}
    \cup {[rc |-> 1, outs |-> o] : o \in {{}, {T1Image(FALSE)}}}

\* --------------------------------------------------------- extract_bundle

Lines(l) == {l[i] : i \in 1..Len(l)}

\* A ledger that is never consulted.
NeverProcessed(l, path) == FALSE

\* if path in lines (42-49)
IsProcessed(l, path) == path \in Lines(l)

\* The end of extract_bundle without its write to the ledger.
MarkNothing(l, path) == l

\* f.write(f'{path}\n') on processed_zipfiles.csv, opened to append (104-106)
MarkProcessed(l, path) == Append(l, path)

IndexError == "IndexError"

\* f.split('/')[-2].split('_')[1]
SubjectOf(e) == IF Len(e.parent) >= 2 THEN e.parent[2] ELSE IndexError

\* A malformed entry that ends the loop over the entries.
BreakLoop(fl) == <<>>

\* "continue" (79): the loop goes on with the entries that are left.
Continue(fl) == Tail(fl)

\* The orders in which glob may list the files of S: the order of the
\* directory, which the program does not choose.
RECURSIVE Orders(_)
Orders(S) ==
    IF S = {} THEN {<<>>}
    ELSE UNION {{<<x>> \o p : p \in Orders(S \ {x})} : x \in S}

\* flair_file + t1_file (84-87), in each order the two globs may give.
Matched(outs) ==
    {p \o q : p \in Orders({n \in outs : n.flairPat}),
              q \in Orders({n \in outs : n.t1Pat})}

\* shutil.copy onto target_dir/target_file.<ext>: a file of that name is
\* replaced.
CopyTo(files, f) ==
    {g \in files : ~(g.tok = f.tok /\ g.mod = f.mod /\ g.ext = f.ext)} \cup {f}

Modality(n) == IF n.flairIn THEN "FLAIR" ELSE "T1w"

\* An image without sidecar that is not copied at all.
CopiesIfSidecar(a, session, n) ==
    LET src == [visit |-> session, out |-> n.name, arch |-> a]
    IN  IF n.json
        THEN <<File(session, Modality(n), "nii.gz", src), File(session, Modality(n), "json", src)>>
        ELSE <<>>

\* The files one image puts into the anat directory (88-99).
CopiesOf(a, session, n) ==
    LET src == [visit |-> session, out |-> n.name, arch |-> a]
    IN  <<File(session, Modality(n), "nii.gz", src)>>
        \o (IF n.json THEN <<File(session, Modality(n), "json", src)>> ELSE <<>>)

RECURSIVE CopyAll(_, _)
CopyAll(files, fs) ==
    IF fs = <<>> THEN files ELSE CopyAll(CopyTo(files, Head(fs)), Tail(fs))

RECURSIVE Flatten(_)
Flatten(ss) == IF ss = <<>> THEN <<>> ELSE Head(ss) \o Flatten(Tail(ss))

\* Every copy of the visit, in the order of the loop of line 87 over the
\* list m.
Copies(a, session, m) ==
    Flatten([i \in 1..Len(m) |-> CopiesOf(a, session, m[i])])

\* The copies the loop of line 87 makes after a converter call that ended
\* with rc: result.returncode is never read.
PlacedAfter(rc, copies) == copies

\* The session directories of a subject after the copies (makedirs, 92-93).
Place(dirs, session, copies) ==
    IF copies = <<>> THEN dirs
    ELSE [t \in DOMAIN dirs \cup {session} |->
            IF t = session
            THEN CopyAll(IF session \in DOMAIN dirs THEN dirs[session] ELSE {}, copies)
            ELSE dirs[t]]

\* A tmpdir that is used as it was found.
KeepScratch(dir) == dir

\* rmtree(tmpdir) and makedirs(tmpdir), or makedirs(tmpdir) alone (51-59):
\* in both branches tmpdir exists afterwards and nothing is in it.
Wipe(dir) == {}

\* zip_ref.extractall(tmpdir), as far as it got: the first k entries.
Extractall(dir, a, k) == dir \cup {Content(a)[i] : i \in 1..k}

NotInA1(e) == e \notin Lines(Content("A1"))

\* Every visit directory an archive may bring, in the order in which a
\* listing of tmpdir gives them.
Listing == Content("A1") \o SelectSeq(Content("A2"), NotInA1)

\* glob(join(tmpdir, '*', '*')) (68): the visit directories in tmpdir.
Glob(dir) ==
    LET Present(e) == e \in dir
    IN  SelectSeq(Listing, Present)

\* The images that lie in the visit directory f (what the globs of 84-85
\* are matched against).
VisitFiles(dir, f) == {x.out : x \in {y \in dir : "out" \in DOMAIN y /\ y.in = f}}

\* main(), no command: extract_mri_files(args.source, args.target) starts.
StartBatch ==
    /\ pc = "idle"
    /\ Len(done) < MaxCommands
    /\ pc' = "batch"
    /\ todo' = Archives
    /\ stat' = ZeroStat("batch")
    /\ bundles' = <<>>
    /\ UNCHANGED <<target, registry, cleanupVars, corrupt, ledger, scratch, filelist, done>>

\* main(), --zipfile: extract_single_zipbundle(args.source, args.target).
StartSingle ==
    /\ pc = "idle"
    /\ Len(done) < MaxCommands
    /\ pc' = "batch"
    /\ \E a \in Archives : todo' = {a}
    /\ stat' = ZeroStat("single")
    /\ bundles' = <<>>
    /\ UNCHANGED <<target, registry, cleanupVars, corrupt, ledger, scratch, filelist, done>>

\* History of one call of extract_bundle: the ledger before and after,
\* what lay in tmpdir when extractall began (tmp0), and what the glob of
\* line 68 listed (nothing, for a call that returned before).
Bundle(path, res, l0, l1, tmp0, listed) ==
    [path |-> path, res |-> res, ledger0 |-> l0, ledger1 |-> l1,
     tmp0 |-> tmp0, listed |-> listed, visits |-> <<>>]

\* extract_bundle(zipfile, ...) up to its loop over the entries (42-72).
BundleBegin ==
    /\ pc = "batch"
    /\ \E a \in todo :
          /\ todo' = todo \ {a}
          /\ IF IsProcessed(ledger, a)
             THEN \* Already processed: return []
                  /\ bundles' = Append(bundles, Bundle(a, "skipped", ledger, ledger, {}, <<>>))
                  /\ UNCHANGED <<pc, scratch, filelist>>
             ELSE IF a \in corrupt
             THEN \* Could not extract: return []; what extractall wrote stays
                  /\ \E k \in 0..1 : scratch' = Extractall(Wipe(scratch), a, k)
                  /\ bundles' = Append(bundles, Bundle(a, "failed", ledger, ledger,
                                                       Wipe(scratch), <<>>))
                  /\ UNCHANGED <<pc, filelist>>
             ELSE /\ scratch' = Extractall(Wipe(scratch), a, Len(Content(a)))
                  /\ filelist' = Glob(scratch')
                  /\ bundles' = Append(bundles, Bundle(a, "extracted", ledger, ledger,
                                                       Wipe(scratch), filelist'))
                  /\ pc' = "visits"
    /\ UNCHANGED <<target, registry, cleanupVars, corrupt, ledger, stat, done>>

\* One iteration of "for f in filelist" (73-102), with runs the outcomes
\* the call of dcm2niix may have.
Visit(runs) ==
    /\ pc = "visits"
    /\ filelist # <<>>
    /\ LET f == Head(filelist)
           b == bundles[Len(bundles)]
           subject == SubjectOf(f)
       IN  IF subject = IndexError
           THEN \* Could not extract subject/session from filename: continue
                /\ bundles' = [bundles EXCEPT ![Len(bundles)].visits =
                      Append(@, [entry |-> f, malformed |-> TRUE, converted |-> FALSE,
                                 rc |-> 0, outs |-> {}, found |-> {}, placed |-> <<>>])]
                /\ filelist' = Continue(filelist)
                /\ UNCHANGED <<target, scratch, stat>>
           ELSE \E run \in runs :
                  LET rc == run.rc
                      outs == run.outs
                      tmp == scratch \cup {[in |-> f, out |-> n] : n \in outs}
                      found == VisitFiles(tmp, f)
                  IN  \E m \in Matched(found) :
                        LET copies == PlacedAfter(rc, Copies(b.path, f.session, m))
                        IN  /\ target' = [target EXCEPT ![subject] = Place(@, f.session, copies)]
                            /\ scratch' = tmp
                            /\ stat' = [stat EXCEPT !.conv = @ + 1, !.placed = @ + Len(copies)]
                            /\ bundles' = [bundles EXCEPT ![Len(bundles)].visits =
                                  Append(@, [entry |-> f, malformed |-> FALSE,
                                             converted |-> TRUE, rc |-> rc, outs |-> outs,
                                             found |-> found, placed |-> copies])]
                            /\ filelist' = Tail(filelist)
    /\ UNCHANGED <<registry, pc, cleanupVars, corrupt, ledger, todo, done>>

VisitStep == Visit(ConverterRuns)

\* The end of extract_bundle: the path is written to the ledger (104-108).
BundleEnd ==
    /\ pc = "visits"
    /\ filelist = <<>>
    /\ ledger' = MarkProcessed(ledger, bundles[Len(bundles)].path)
    /\ bundles' = [bundles EXCEPT ![Len(bundles)].res = "returned",
                                   ![Len(bundles)].ledger1 = ledger']
    /\ stat' = [stat EXCEPT !.appends = @ + (Len(ledger') - Len(ledger))]
    /\ pc' = "batch"
    /\ UNCHANGED <<target, registry, cleanupVars, corrupt, scratch, todo, filelist, done>>

\* The loop over the archives is over (or the one bundle is done).
BatchEnd ==
    /\ pc = "batch"
    /\ todo = {}
    /\ pc' = "idle"
    /\ done' = Append(done, [stat EXCEPT !.target1 = target, !.registry1 = registry])
    /\ UNCHANGED <<target, registry, cleanupVars, extractVars, stat>>

\* ------------------------------------------------------------ the program

\* Before the first command: an empty target, no ledger, and a source some
\* of whose archives cannot be extracted.
Init ==
    /\ target = [x \in Subjects |-> [t \in {} |-> {}]]
    /\ registry = [x \in Subjects |-> <<>>]
    /\ pc = "idle"
    /\ subjects = {}
    /\ subj = "none"
    /\ sessions = <<>>
    /\ s = 0
    /\ df = <<>>
    /\ passlog = <<>>
    /\ stat = [cmd |-> "none"]
    /\ done = <<>>
    /\ corrupt \in SUBSET Archives
    /\ ledger = <<>>
    /\ scratch = {}
    /\ todo = {}
    /\ filelist = <<>>
    /\ bundles = <<>>

Next ==
    \/ StartBatch \/ StartSingle \/ BundleBegin \/ VisitStep \/ BundleEnd \/ BatchEnd
    \/ StartCleanup \/ SubjectBegin \/ SessionStep \/ SubjectEnd \/ CleanupEnd

Spec == Init /\ [][Next]_vars

\* ------------------------------------------- the Reconciler on its own

\* A session directory as extract_bundle or an earlier pass left it: one
\* image, named after the directory.
DirFiles(t) == {File(t, "T1w", "nii.gz", [visit |-> t, out |-> "T1"])}

DirNames == {SesId(k) : k \in 1..MaxOrd} \cup Stamps

Dates == {Strptime(t) : t \in Stamps}

\* Registries whose identifiers are pairwise distinct and whose dates are
\* pairwise distinct, rows in the order of the identifiers.
RECURSIVE RowsOf(_, _)
RowsOf(f, k) ==
    IF k > MaxOrd THEN <<>>
    ELSE (IF k \in DOMAIN f
          THEN <<[session_id |-> SesId(k), acq_time |-> f[k]]>>
          ELSE <<>>) \o RowsOf(f, k + 1)

Registries ==
    {RowsOf(f, 1) :
        f \in {g \in UNION {[D -> Dates] : D \in SUBSET (1..MaxOrd)} :
                  \A i, j \in DOMAIN g : i # j => g[i] # g[j]}}

Empty == [t \in {} |-> {}]

InitReconcile ==
    /\ \E D \in SUBSET DirNames :
          target = [x \in Subjects |-> IF x = "S1" THEN [t \in D |-> DirFiles(t)] ELSE Empty]
    /\ \E r \in Registries :
          registry = [x \in Subjects |-> IF x = "S1" THEN r ELSE <<>>]
    /\ pc = "idle"
    /\ subjects = {}
    /\ subj = NoSubject
    /\ sessions = <<>>
    /\ s = 0
    /\ df = <<>>
    /\ passlog = <<>>
    /\ stat = [cmd |-> "none"]
    /\ done = <<>>
    /\ corrupt = {}
    /\ ledger = <<>>
    /\ scratch = {}
    /\ todo = {}
    /\ filelist = <<>>
    /\ bundles = <<>>

NextReconcile == StartCleanup \/ SubjectBegin \/ SessionStep \/ SubjectEnd \/ CleanupEnd

SpecReconcile == InitReconcile /\ [][NextReconcile]_vars

\* ------------------------------------------- the placement on its own

\* An image whose name matches '*T1*MS-P*.nii.gz' alone and holds "FLAIR".
FlairNamedT1 == Nifti("T1_MS-P_FLAIR", FALSE, TRUE, TRUE, TRUE)

\* A second image of the FLAIR pattern, without its .json.
SecondFlair == Nifti("FLAIR_MS-P_2", TRUE, FALSE, TRUE, FALSE)

\* More of what dcm2niix may leave in a visit directory: the image above, a
\* FLAIR image without sidecar next to a T1 image, two images of the FLAIR
\* pattern of which one has no sidecar.
ConverterRunsAll ==
    ConverterRuns
    \cup {[rc |-> 0, outs |-> o] : o \in {{FlairNamedT1},
                                         {FlairImage(FALSE), T1Image(TRUE)},
                                         {FlairImage(TRUE), SecondFlair}}}

VisitAny == Visit(ConverterRunsAll)

\* Single bundles alone, over every converter outcome above.
NextPlace == StartSingle \/ BundleBegin \/ VisitAny \/ BundleEnd \/ BatchEnd

SpecPlace == Init /\ [][NextPlace]_vars

\* --------------------------------- cleanup_sessions over unreadable files

\* Two subjects with session directories and no Registry yet, or with a
\* sessions.tsv that is not a table.
InitUnreadable ==
    /\ \E D1, D2 \in SUBSET {SesId(1), Stamp1, Stamp2} :
          target = [x \in Subjects |->
                      [t \in (IF x = "S1" THEN D1 ELSE D2) |-> DirFiles(t)]]
    /\ registry = [x \in Subjects |-> <<>>]
    /\ pc = "idle"
    /\ subjects = {}
    /\ subj = NoSubject
    /\ sessions = <<>>
    /\ s = 0
    /\ df = <<>>
    /\ passlog = <<>>
    /\ stat = [cmd |-> "none"]
    /\ done = <<>>
    /\ corrupt \in SUBSET Subjects
    /\ ledger = <<>>
    /\ scratch = {}
    /\ todo = {}
    /\ filelist = <<>>
    /\ bundles = <<>>

SpecUnreadable == InitUnreadable /\ [][NextReconcile]_vars

\* ------------------------------------- cleanup_sessions over odd names

\* "2021011": a date-stamp that lost a digit.
Truncated == [w |-> 7, v |-> 2021011]

\* "2021": a year alone.
YearOnly == [w |-> 4, v |-> 2021]

OddNames == {Truncated, YearOnly}

\* As InitReconcile, with session directories of other names among those
\* of S1 and a Registry of at most one row.
InitOddNames ==
    /\ \E D \in SUBSET (DirNames \cup OddNames) :
          target = [x \in Subjects |-> IF x = "S1" THEN [t \in D |-> DirFiles(t)] ELSE Empty]
    /\ \E r \in {q \in Registries : Len(q) <= 1} :
          registry = [x \in Subjects |-> IF x = "S1" THEN r ELSE <<>>]
    /\ pc = "idle"
    /\ subjects = {}
    /\ subj = NoSubject
    /\ sessions = <<>>
    /\ s = 0
    /\ df = <<>>
    /\ passlog = <<>>
    /\ stat = [cmd |-> "none"]
    /\ done = <<>>
    /\ corrupt = {}
    /\ ledger = <<>>
    /\ scratch = {}
    /\ todo = {}
    /\ filelist = <<>>
    /\ bundles = <<>>

SpecOddNames == InitOddNames /\ [][NextReconcile]_vars

\* --------------------------------------- cleanup_sessions, interrupted

\* The process is ended (a signal, a power cut) inside the loop over the
\* sessions of a subject, between two iterations: what was renamed stays
\* renamed, sessions_df is lost.
KillInLoop ==
    /\ pc = "sessions"
    /\ pc' = "idle"
    /\ done' = Append(done, [stat EXCEPT !.crashed = TRUE, !.error = "killed",
                                         !.pending = subjects, !.sub = subj,
                                         !.target1 = target, !.registry1 = registry])
    /\ UNCHANGED <<target, registry, subjects, subj, sessions, s, df, passlog, stat,
                   extractVars>>

\* The rows of sessions.tsv when the process is ended inside to_csv (202):
\* the file was opened for writing at its place, which empties it, and the
\* rows are written in order, so any number of them from none to all may
\* have got there.
PartlyWritten(d) == {SubSeq(d, 1, k) : k \in 0..Len(d)}

KillInSave ==
    /\ pc = "sessions"
    /\ s = Len(sessions)
    /\ \E rows \in PartlyWritten(df) :
          /\ registry' = [registry EXCEPT ![subj] = rows]
          /\ done' = Append(done, [stat EXCEPT !.crashed = TRUE, !.error = "killed in to_csv",
                                               !.pending = subjects, !.sub = subj,
                                               !.saving = df,
                                               !.target1 = target, !.registry1 = registry'])
    /\ pc' = "idle"
    /\ UNCHANGED <<target, subjects, subj, sessions, s, df, passlog, stat, extractVars>>

NextInterrupt ==
    \/ StartCleanup \/ SubjectBegin \/ SessionStep \/ SubjectEnd \/ CleanupEnd
    \/ KillInLoop \/ KillInSave

\* As InitReconcile, with at most one reconciled directory and at most one
\* row.
InitInterrupt ==
    /\ \E D \in SUBSET ({SesId(1)} \cup Stamps) :
          target = [x \in Subjects |-> IF x = "S1" THEN [t \in D |-> DirFiles(t)] ELSE Empty]
    /\ \E r \in {q \in Registries : Len(q) <= 1} :
          registry = [x \in Subjects |-> IF x = "S1" THEN r ELSE <<>>]
    /\ pc = "idle"
    /\ subjects = {}
    /\ subj = NoSubject
    /\ sessions = <<>>
    /\ s = 0
    /\ df = <<>>
    /\ passlog = <<>>
    /\ stat = [cmd |-> "none"]
    /\ done = <<>>
    /\ corrupt = {}
    /\ ledger = <<>>
    /\ scratch = {}
    /\ todo = {}
    /\ filelist = <<>>
    /\ bundles = <<>>

SpecInterrupt == InitInterrupt /\ [][NextInterrupt]_vars

\* What the loop of lines 171-199 comes to when it runs from index i to its
\* end over the sorted tokens sess, the directories dirs and the rows d:
\* the directories, sessions_df, and whether a rename raised.
RECURSIVE SessionsLoop(_, _, _, _)
SessionsLoop(dirs, d, sess, i) ==
    IF i >= Len(sess) THEN [dirs |-> dirs, df |-> d, raised |-> FALSE]
    ELSE LET old == sess[i + 1]
             ses_date == Strptime(old)
             cand == SesId(i + 1)
             known == cand \in SessionIds(d)
             same == known /\ ses_date \in AcqTimes(d, cand)
             ses_id == IF known THEN FindNewName(d, i) ELSE cand
             new == RenameTarget(i, ses_id)
         IN  IF ses_date = ValueError \/ same
             THEN SessionsLoop(dirs, d, sess, i + 1)
             ELSE IF RenameRaises(dirs, new)
             THEN [dirs |-> dirs, df |-> d, raised |-> TRUE]
             ELSE SessionsLoop(RenameFiles(RenameDir(dirs, old, new), ses_id, old),
                               Append(d, [session_id |-> ses_id, acq_time |-> ses_date]),
                               sess, i + 1)

\* One iteration of "for subject in subjects" (161-202) that nothing
\* interrupts: the directories and the rows of sessions.tsv after it.
OnePass(dirs, d) ==
    LET r == SessionsLoop(dirs, d, SortedNames(DOMAIN dirs), 0)
    IN  [dirs |-> r.dirs, rows |-> IF r.raised THEN d ELSE r.df, raised |-> r.raised]

\* The Reconciler as a process that is not stopped from outside: a command
\* that has started goes on to its next step.
SpecReconcileFair == SpecReconcile /\ WF_vars(NextReconcile)

\* ------------------------------------------------------------- the claims

Rows(d) == {d[i] : i \in 1..Len(d)}

IdsDistinct(d) == \A i, j \in 1..Len(d) : i # j => d[i].session_id # d[j].session_id

DatesDistinct(d) == \A i, j \in 1..Len(d) : i # j => d[i].acq_time # d[j].acq_time

\* Dates as strings "YYYY-MM-DD" compare as the calendar does.
DateBefore(a, b) ==
    \/ a[1] < b[1]
    \/ a[1] = b[1] /\ a[2] < b[2]
    \/ a[1] = b[1] /\ a[2] = b[2] /\ a[3] < b[3]

\* C4: no two rows of a subject's Registry, on disk or in memory during a
\* pass, share a session identifier.
C4_IdentifiersUnique ==
    /\ \A x \in Subjects : IdsDistinct(registry[x])
    /\ IdsDistinct(df)

\* A pass saved a row whose identifier the collision search had to find.
C4_Witness ==
    /\ pc = "cleanup"
    /\ \E i \in 1..Len(passlog) :
          /\ passlog[i].collided
          /\ passlog[i].act = "renamed"
          /\ passlog[i].ses_id # SesId(passlog[i].idx + 1)
          /\ [session_id |-> passlog[i].ses_id, acq_time |-> passlog[i].date]
                \in Rows(registry[passlog[i].sub])

\* The first identifier from SesId(nr + 1) on whose Registry entry is
\* absent or carries the date.
RECURSIVE FirstUsable(_, _, _)
FirstUsable(d, nr, date) ==
    IF SesId(nr + 1) \in SessionIds(d) /\ date \notin AcqTimes(d, SesId(nr + 1))
    THEN FirstUsable(d, nr + 1, date)
    ELSE SesId(nr + 1)

\* C5: a visit whose candidate identifier is in the Registry with another
\* date gets the first identifier, from the candidate on, whose Registry
\* entry is absent or carries the visit's date.
C5_CollisionResolution ==
    \A i \in 1..Len(passlog) :
        (passlog[i].collided /\ passlog[i].act # "same")
            => passlog[i].ses_id = FirstUsable(passlog[i].before, passlog[i].idx, passlog[i].date)

\* C5, the example of the claim: Registry {(ses-001, 2021-01-05)} and one
\* raw directory of 2021-02-01 give the row (ses-002, 2021-02-01).
C5_Example ==
    \A i \in 1..Len(passlog) :
        (/\ passlog[i].before = <<[session_id |-> SesId(1), acq_time |-> <<2021, 1, 5>>]>>
         /\ passlog[i].old = Stamp2
         /\ passlog[i].idx = 0)
            => passlog[i].ses_id = SesId(2)

\* C6: the directory and the files of a visit that got a Registry row are
\* renamed to the row's identifier: the directory of that name holds the
\* visit of the recorded date, under file names with that identifier.
C6_RenameAgreesWithRegistry ==
    \A i \in 1..Len(passlog) :
        passlog[i].act = "renamed" =>
            /\ passlog[i].dir = passlog[i].ses_id
            /\ passlog[i].ses_id \in DOMAIN target[passlog[i].sub]
            /\ \A f \in target[passlog[i].sub][passlog[i].ses_id] :
                  /\ Strptime(f.src.visit) = passlog[i].date
                  /\ f.tok = passlog[i].ses_id

Unchanged(c) ==
    /\ c.renames = 0
    /\ c.fileRenames = 0
    /\ c.registry1 = c.registry0
    /\ c.target1 = c.target0

\* C7: a pass over subjects without raw directories renames nothing and
\* leaves the Registry as it is, and so does a pass right after a pass.
C7_ReconcilerIdempotent ==
    \A i \in 1..Len(done) :
        (/\ done[i].cmd = "cleanup"
         /\ \/ ~done[i].hadRaw
            \/ i > 1 /\ done[i - 1].cmd = "cleanup" /\ ~done[i - 1].crashed)
            => Unchanged(done[i])

\* C7, the first half alone.
C7_NoRawNoChange ==
    \A i \in 1..Len(done) :
        (done[i].cmd = "cleanup" /\ ~done[i].hadRaw) => Unchanged(done[i])

\* C8: within one pass and subject the raw visits are taken in ascending
\* date order, and of two visits that get identifiers the earlier one gets
\* the lower ordinal, in the Registry and as directory name.
C8_Ordering ==
    \A i, j \in 1..Len(passlog) :
        (i < j /\ passlog[i].sub = passlog[j].sub) =>
            /\ DateBefore(passlog[i].date, passlog[j].date)
            /\ (passlog[i].act # "same" /\ passlog[j].act # "same") =>
                  /\ passlog[i].ses_id.v < passlog[j].ses_id.v
                  /\ passlog[i].dir.v < passlog[j].dir.v

\* Two visits of one pass got identifiers, the first after a collision.
C8_Witness ==
    \E i, j \in 1..Len(passlog) :
        /\ i < j
        /\ passlog[i].act = "renamed" /\ passlog[j].act = "renamed"
        /\ passlog[i].collided
        /\ passlog[i].ses_id # SesId(passlog[i].idx + 1)

\* C3: no two rows of a subject's Registry carry the same date.
C3_DatesUnique == \A x \in Subjects : DatesDistinct(registry[x])

\* C1: an archive whose extraction succeeded is in the ledger once
\* extract_bundle has returned; a failed extraction leaves the ledger as it
\* was, without the archive, and the batch takes every other archive too.
C1_LedgerCorrectness ==
    /\ \A i \in 1..Len(bundles) :
          /\ bundles[i].res = "returned" => IsProcessed(ledger, bundles[i].path)
          /\ (bundles[i].res = "extracted" /\ pc # "visits") => IsProcessed(ledger, bundles[i].path)
          /\ bundles[i].res = "failed" =>
                /\ ~IsProcessed(bundles[i].ledger0, bundles[i].path)
                /\ IF i < Len(bundles)
                   THEN bundles[i + 1].ledger0 = bundles[i].ledger0
                   ELSE ledger = bundles[i].ledger0
    /\ (pc = "idle" /\ stat.cmd = "batch") =>
          {bundles[i].path : i \in 1..Len(bundles)} = Archives

\* A batch is over in which one archive failed to extract and a later one
\* was extracted and marked.
C1_Witness ==
    /\ pc = "idle"
    /\ stat.cmd = "batch"
    /\ \E i, j \in 1..Len(bundles) :
          /\ i < j
          /\ bundles[i].res = "failed"
          /\ bundles[j].res = "returned"
          /\ IsProcessed(ledger, bundles[j].path)

\* C2: after a batch and a cleanup, a second batch and cleanup append
\* nothing to the ledger, convert nothing, place nothing, rename nothing and
\* leave the target and the Registries as they were.
C2_PipelineIdempotent ==
    \A i \in 1..Len(done) :
        (/\ i + 3 <= Len(done)
         /\ done[i].cmd = "batch" /\ done[i + 1].cmd = "cleanup"
         /\ done[i + 2].cmd = "batch" /\ done[i + 3].cmd = "cleanup")
            => /\ done[i + 2].appends = 0
               /\ done[i + 2].conv = 0
               /\ done[i + 2].placed = 0
               /\ Unchanged(done[i + 2])
               /\ Unchanged(done[i + 3])
               /\ ~done[i + 3].crashed

\* Two full runs are over; the first converted, placed, marked and renamed,
\* and one archive of the source cannot be extracted.
C2_Witness ==
    /\ pc = "idle"
    /\ Len(done) = 4
    /\ done[1].cmd = "batch" /\ done[2].cmd = "cleanup"
    /\ done[3].cmd = "batch" /\ done[4].cmd = "cleanup"
    /\ done[1].placed > 0 /\ done[1].appends > 0 /\ done[2].renames > 0
    /\ corrupt # {}

\* C9: nothing is placed for a visit whose converter call ended with a
\* status other than 0.
C9_FailedConversionPlacesNothing ==
    \A i \in 1..Len(bundles) : \A k \in 1..Len(bundles[i].visits) :
        (bundles[i].visits[k].converted /\ bundles[i].visits[k].rc # 0)
            => bundles[i].visits[k].placed = <<>>

\* C9, the second half: after a failed conversion the loop takes the next
\* entries of the archive.
C9_NextVisitTaken ==
    \A i \in 1..Len(bundles) :
        bundles[i].res = "returned" => Len(bundles[i].visits) = Len(Content(bundles[i].path))

\* C10: in an extracted archive a directory whose name has no second word
\* is not converted and places nothing, every other entry is converted and
\* each image of a pattern the converter left is in the target under its
\* modality, and the archive is in the ledger (looked at until the next
\* cleanup renames the directories).
C10_MalformedEntrySkippedAlone ==
    \A i \in 1..Len(bundles) :
        (bundles[i].res = "returned" /\ stat.cmd \in {"batch", "single"}) =>
            /\ Len(bundles[i].visits) = Len(Content(bundles[i].path))
            /\ IsProcessed(ledger, bundles[i].path)
            /\ \A k \in 1..Len(bundles[i].visits) :
                  LET v == bundles[i].visits[k]
                  IN  /\ v.entry = Content(bundles[i].path)[k]
                      /\ Len(v.entry.parent) < 2 =>
                            ~v.converted /\ v.placed = <<>>
                      /\ Len(v.entry.parent) >= 2 =>
                            /\ v.converted
                            /\ \A n \in v.outs :
                                  (n.flairPat \/ n.t1Pat) =>
                                     /\ v.entry.session \in DOMAIN target[v.entry.parent[2]]
                                     /\ \E g \in target[v.entry.parent[2]][v.entry.session] :
                                           /\ g.tok = v.entry.session
                                           /\ g.mod = Modality(n)
                                           /\ g.ext = "nii.gz"

\* The archive with the malformed entry is marked, and both of its
\* well-formed visits have files in the target.
C10_Witness ==
    \E i \in 1..Len(bundles) :
        /\ bundles[i].res = "returned"
        /\ bundles[i].path = "A1"
        /\ IsProcessed(ledger, "A1")
        /\ stat.cmd \in {"batch", "single"}
        /\ bundles[i].visits[2].malformed
        /\ bundles[i].visits[1].placed # <<>>
        /\ bundles[i].visits[3].placed # <<>>
        /\ Stamp1 \in DOMAIN target["S1"]
        /\ Stamp2 \in DOMAIN target["S2"]

\* A cleanup pass of the program never ends in OSError.
NoCrash == \A i \in 1..Len(done) : ~done[i].crashed

\* C12: whenever extract_bundle begins to extract an archive, tmpdir exists
\* and is empty, whatever an earlier archive or an earlier, possibly failed,
\* call left in it; the visit directories then listed are those of the
\* archive, and the images classified for a visit are those the converter
\* left for it.
C12_ScratchIsolation ==
    \A i \in 1..Len(bundles) :
        bundles[i].res # "skipped" =>
            /\ bundles[i].tmp0 = {}
            /\ bundles[i].res # "failed" => bundles[i].listed = Content(bundles[i].path)
            /\ \A k \in 1..Len(bundles[i].visits) :
                  /\ bundles[i].visits[k].entry \in Lines(Content(bundles[i].path))
                  /\ bundles[i].visits[k].found = bundles[i].visits[k].outs

\* The second archive of a batch was extracted and its visits placed
\* after the first had left a visit directory with images in tmpdir.
C12_Witness ==
    /\ Len(bundles) = 2
    /\ bundles[1].res = "returned"
    /\ \E k \in 1..Len(bundles[1].visits) : bundles[1].visits[k].outs # {}
    /\ bundles[2].res = "returned"
    /\ bundles[2].tmp0 = {}
    /\ \E k \in 1..Len(bundles[2].visits) : bundles[2].visits[k].placed # <<>>

\* The modality of the pattern an image matched.
PatternModality(n) == IF n.flairPat THEN "FLAIR" ELSE "T1w"

OutputNamed(outs, name) == CHOOSE n \in outs : n.name = name

FileNames(fs) == {[tok |-> fs[j].tok, mod |-> fs[j].mod, ext |-> fs[j].ext] : j \in 1..Len(fs)}

\* C11, the paths: every file in the target lies in the session directory
\* of the subject and the visit it was converted from, under that label.
C11_Paths ==
    \A x \in Subjects : \A t \in DOMAIN target[x] : \A f \in target[x][t] :
        /\ f.tok = t
        /\ f.src.visit = t
        /\ \E e \in Lines(Content(f.src.arch)) : SubjectOf(e) = x /\ e.session = t

\* C11, the example: a visit with one T1 and one FLAIR image and their
\* sidecars places exactly the four files T1w and FLAIR, .nii.gz and .json.
C11_FourFiles ==
    \A i \in 1..Len(bundles) : \A k \in 1..Len(bundles[i].visits) :
        LET v == bundles[i].visits[k]
        IN  v.outs = {T1Image(TRUE), FlairImage(TRUE)} =>
               /\ FileNames(v.placed) =
                     {[tok |-> v.entry.session, mod |-> m, ext |-> x] :
                         m \in {"T1w", "FLAIR"}, x \in {"nii.gz", "json"}}
               /\ \A nm \in FileNames(v.placed) :
                     \E g \in target[SubjectOf(v.entry)][v.entry.session] :
                        g.tok = nm.tok /\ g.mod = nm.mod /\ g.ext = nm.ext

\* C11: every file placed for a visit of subject S with label L lies in
\* sub-S/ses-L/anat under the name sub-S_ses-L_<modality>.<ext>, with the
\* modality of the pattern its image matched; an image of no pattern is not
\* placed; one T1 and one FLAIR image with sidecars give exactly four files
\* there and none elsewhere.
C11_PlacementDeterminism ==
    /\ C11_Paths
    /\ C11_FourFiles
    /\ \A i \in 1..Len(bundles) : \A k \in 1..Len(bundles[i].visits) :
          LET v == bundles[i].visits[k]
          IN  \A j \in 1..Len(v.placed) :
                 LET n == OutputNamed(v.outs, v.placed[j].src.out)
                 IN  /\ n.flairPat \/ n.t1Pat
                     /\ v.placed[j].tok = v.entry.session
                     /\ v.placed[j].mod = PatternModality(n)

\* C15: a matched image without .json is copied to its target name all the
\* same, no .json is copied for it, the other matched images of the visit
\* are copied too, and the loop takes every other visit of the archive.
C15_MissingSidecarNotFatal ==
    \A i \in 1..Len(bundles) :
        /\ bundles[i].res = "returned" => Len(bundles[i].visits) = Len(bundles[i].listed)
        /\ \A k \in 1..Len(bundles[i].visits) :
              LET v == bundles[i].visits[k]
              IN  \A n \in v.found :
                     (n.flairPat \/ n.t1Pat) =>
                        /\ \E j \in 1..Len(v.placed) :
                              /\ v.placed[j].src.out = n.name
                              /\ v.placed[j].ext = "nii.gz"
                              /\ v.placed[j].mod = Modality(n)
                              /\ v.placed[j].tok = v.entry.session
                        /\ \E g \in target[SubjectOf(v.entry)][v.entry.session] :
                              g.mod = Modality(n) /\ g.ext = "nii.gz"
                        /\ ~n.json =>
                              \A j \in 1..Len(v.placed) :
                                 ~(v.placed[j].src.out = n.name /\ v.placed[j].ext = "json")

\* The FLAIR image of a visit had no sidecar; it was placed, the T1 image
\* after it was placed with its sidecar, and so were images of the next
\* visit of the archive.
C15_Witness ==
    \E i \in 1..Len(bundles) :
        /\ bundles[i].res = "returned"
        /\ \E k \in 1..Len(bundles[i].visits) :
              /\ bundles[i].visits[k].outs = {FlairImage(FALSE), T1Image(TRUE)}
              /\ Len(bundles[i].visits[k].placed) = 3
              /\ \E l \in (k + 1)..Len(bundles[i].visits) :
                    bundles[i].visits[l].placed # <<>>

\* C20: when a session directory of the target holds the .nii.gz and the
\* .json of one modality, both were copied from the same converter output
\* of the same visit.
C20_ImageAndSidecarPaired ==
    \A x \in Subjects : \A t \in DOMAIN target[x] : \A f, g \in target[x][t] :
        (f.mod = g.mod /\ f.ext = "nii.gz" /\ g.ext = "json") => f.src = g.src

\* C20 for the files of one visit alone.
C20_PairedWithinVisit ==
    \A i \in 1..Len(bundles) : \A k \in 1..Len(bundles[i].visits) :
        \A f, g \in CopyAll({}, bundles[i].visits[k].placed) :
            (f.mod = g.mod /\ f.ext = "nii.gz" /\ g.ext = "json") => f.src = g.src

RawTokens(dirs) == {t \in DOMAIN dirs : Strptime(t) # ValueError}

\* C13: a cleanup pass in which the sessions.tsv of one subject cannot be
\* read still completes, and every other subject is reconciled: none of its
\* raw directories is left and each of their dates is in its saved
\* Registry.
C13_CorruptionContained ==
    \A i \in 1..Len(done) :
        (done[i].cmd = "cleanup" /\ done[i].error # "OSError") =>
            /\ ~done[i].crashed
            /\ done[i].pending \subseteq corrupt
            /\ \A x \in Subjects \ corrupt :
                  /\ RawTokens(done[i].target1[x]) = {}
                  /\ \A t \in RawTokens(done[i].target0[x]) :
                        \E j \in 1..Len(done[i].registry1[x]) :
                           done[i].registry1[x][j].acq_time = Strptime(t)

\* C14: when the process is ended while to_csv writes a subject's
\* sessions.tsv, the file holds all the rows it held before or all the rows
\* that were being written.
C14_AtomicSave ==
    \A i \in 1..Len(done) :
        done[i].error = "killed in to_csv" =>
            done[i].registry1[done[i].sub]
                \in {done[i].registry0[done[i].sub], done[i].saving}

IsIdentifier(t) == t.w = 3

IsDateStamp(t) == t.w = 8 /\ Strptime(t) # ValueError

IsPrefix(p, q) == Len(p) <= Len(q) /\ SubSeq(q, 1, Len(p)) = p

\* What C16 says of the names in the set Odd: during a pass each of them
\* keeps its directory and its files and gets no row, the directories that
\* were ses-NNN at the start keep name and files, and the rows of the start
\* stay as they were.
LeftAlone(Odd) ==
    stat.cmd = "cleanup" =>
        \A x \in Subjects :
            /\ \A t \in DOMAIN stat.target0[x] :
                  /\ t \in Odd =>
                        /\ t \in DOMAIN target[x]
                        /\ target[x][t] = stat.target0[x][t]
                        /\ \A i \in 1..Len(passlog) :
                              passlog[i].sub = x => passlog[i].old # t
                  /\ ((Odd \cap DOMAIN stat.target0[x] # {}) /\ IsIdentifier(t)) =>
                        /\ t \in DOMAIN target[x]
                        /\ target[x][t] = stat.target0[x][t]
            /\ (Odd \cap DOMAIN stat.target0[x] # {}) =>
                  /\ IsPrefix(stat.registry0[x], registry[x])
                  /\ (pc = "sessions" /\ subj = x) => IsPrefix(stat.registry0[x], df)

\* C16: a session directory whose name is neither ses-NNN nor a date-stamp
\* YYYYMMDD is not renamed and gets no Registry row, and with it present no
\* reconciled directory changes its name and no Registry row changes.
C16_MalformedLeftAlone ==
    LeftAlone({t \in DirNames \cup OddNames : ~IsIdentifier(t) /\ ~IsDateStamp(t)})

\* C16 for the names on which strptime raises.
C16_RaisingNamesLeftAlone ==
    LeftAlone({t \in DirNames \cup OddNames : ~IsIdentifier(t) /\ Strptime(t) = ValueError})

\* C17: no os.rename of a session directory is called with the name of a
\* directory that exists.
C17_NoClobberingRename ==
    \A i \in 1..Len(passlog) : passlog[i].act # "raised"

\* C17 for a subject whose reconciled directories are ses-001 .. ses-k at
\* the start of the pass.
C17_ContiguousStart ==
    \A i \in 1..Len(passlog) :
        LET ids == {t \in DOMAIN stat.target0[passlog[i].sub] : IsIdentifier(t)}
        IN  ids = {SesId(k) : k \in 1..Cardinality(ids)} => passlog[i].act # "raised"

SameNames(a, b) == DOMAIN a = DOMAIN b

\* C18: a pass that is ended after a rename and before to_csv, followed by
\* a pass that completes, leaves the Registry rows and the session
\* directory names that one uninterrupted pass from the same start leaves.
C18_InterruptedPassConverges ==
    \A i \in 1..Len(done) :
        (/\ i < Len(done)
         /\ done[i].cmd = "cleanup" /\ done[i].error = "killed" /\ done[i].renames >= 1
         /\ done[i + 1].cmd = "cleanup" /\ ~done[i + 1].crashed)
            => \A x \in Subjects :
                  LET one == OnePass(done[i].target0[x], done[i].registry0[x])
                  IN  ~one.raised =>
                         /\ done[i + 1].registry1[x] = one.rows
                         /\ SameNames(done[i + 1].target1[x], one.dirs)

\* OnePass is what a pass of the model does to a subject.
OnePassAgrees ==
    \A i \in 1..Len(done) :
        (done[i].cmd = "cleanup" /\ done[i].error \in {"none", "OSError"}) =>
            \A x \in Subjects \ done[i].pending :
                LET one == OnePass(done[i].target0[x], done[i].registry0[x])
                IN  /\ done[i].target1[x] = one.dirs
                    /\ done[i].registry1[x] = one.rows

\* C19: the search for a new identifier ends after at most as many
\* increments as the Registry has rows, on an identifier that is in none of
\* them, and the loop over the sessions of a subject always comes to its
\* end.
C19_CollisionSearchTerminates ==
    /\ [](\A i \in 1..Len(passlog) :
            (passlog[i].collided /\ passlog[i].act # "same") =>
                /\ passlog[i].ses_id \notin SessionIds(passlog[i].before)
                /\ passlog[i].ses_id.v - (passlog[i].idx + 1) <= Len(passlog[i].before)
                /\ passlog[i].ses_id.v - (passlog[i].idx + 1) >= 1)
    /\ ((pc = "sessions") ~> (pc # "sessions"))

\* A search that took two increments: every identifier up to the highest
\* of the Registry was taken.
C19_Witness ==
    \E i \in 1..Len(passlog) :
        /\ passlog[i].collided
        /\ passlog[i].act # "same"
        /\ passlog[i].ses_id.v - (passlog[i].idx + 1) = MaxOrd - 1
        /\ Len(passlog[i].before) = MaxOrd

====
